---- MODULE Spec2Model ----
(***************************************************************************)
(* cmd2/rich_utils.py: the module-level style policy (allow_style), the    *)
(* active Rich theme (THEME), the backup of rich-argparse's default styles *)
(* (DEFAULT_RICH_ARGPARSE_STYLES), set_theme, and the Cmd2Console class    *)
(* (its initializer and its broken-pipe handler).                          *)
(*                                                                         *)
(* Python dicts are objects: RichHelpFormatter.styles and the backup are   *)
(* references into a heap of dict objects, so that aliasing (two names for *)
(* one dict) and in-place mutation are part of the model.                  *)
(***************************************************************************)
EXTENDS Integers, FiniteSets, Sequences, TLC

VARIABLES
    allow_style,    \* module global allow_style (an AllowStyle member)
    THEME,          \* module global THEME: None or a theme
    heap,           \* dict objects: object id -> dict (name -> style) or Free
    stylesRef,      \* RichHelpFormatter.styles: the id of the live table
    defaultRef,     \* DEFAULT_RICH_ARGPARSE_STYLES: the id of the backup
    console,        \* the Cmd2Console most recently constructed, or None
    last,           \* the operation performed last, with its inputs and result
    lastThemeArg,   \* the argument of the most recent set_theme call, or None
    pcT, tTheme, tRest, tCur,   \* a thread running set_theme(theme)
    pcN, nTmp,                  \* a thread running set_theme(None)
    overlapped      \* whether the two threads' calls overlapped in time

vars == <<allow_style, THEME, heap, stylesRef, defaultRef, console, last,
          lastThemeArg, pcT, tTheme, tRest, tCur, pcN, nTmp, overlapped>>

globals == <<allow_style, THEME, heap, stylesRef, defaultRef, lastThemeArg>>
raceVars == <<pcT, tTheme, tRest, tCur, pcN, nTmp, overlapped>>

----------------------------------------------------------------------------
(* Bounds and input sets *)

\* The largest number of named styles in a theme handed to set_theme.
MaxThemeLen == 2

\* Python's None.
None == [none |-> TRUE]

\* A heap cell that holds no object.
Free == [free |-> TRUE]

\* The dict with no keys.
EmptyDict == [k \in {} |-> TRUE]

\* The keys of rich-argparse's style table, and a style name it does not have.
FormatterKeys == {"argparse.args", "argparse.groups"}
OtherNames == {"cmd2.custom"}
StyleNames == FormatterKeys \cup OtherNames

\* The styles a theme may give a name; "cyan" is also a default of the table.
ThemeStyles == {"cyan", "magenta"}

\* RichHelpFormatter.styles as rich-argparse defines it when the module loads.
LoadedStyles ==
    [k \in FormatterKeys |-> IF k = "argparse.args" THEN "cyan" ELSE "dark_orange"]

\* The themes given to set_theme: theme.styles maps some names to styles.
Themes ==
    {[styles |-> f] : f \in UNION {[D -> ThemeStyles] :
        D \in {S \in SUBSET StyleNames : Cardinality(S) <= MaxThemeLen}}}

\* The themes that name at most one style.
SingleStyleThemes ==
    {t \in Themes : \A a, b \in DOMAIN t.styles : a = b}

\* The files a console is bound to.
Files == {"stdout", "pipe"}

\* What the base class Console.on_broken_pipe may do when called.
BaseOutcomes == {"return", "SystemExit", "OSError"}

ObjIds == 0 .. 2

----------------------------------------------------------------------------
(* class AllowStyle(Enum) *)

AllowStyle == {"ALWAYS", "NEVER", "TERMINAL"}

AllowStyleValue(member) ==
    CASE member = "ALWAYS" -> "Always"
      [] member = "NEVER" -> "Never"
      [] member = "TERMINAL" -> "Terminal"

\* Enum's own __str__, which AllowStyle overrides: "ClassName.MEMBER".
StrEnumName(member) == "AllowStyle." \o member

\* AllowStyle.__str__: str(self.value); the value is already a str.
Str(member) == AllowStyleValue(member)

----------------------------------------------------------------------------
(* dict objects *)

\* An id no live reference holds.
FreshId(h) == CHOOSE i \in ObjIds : h[i] = Free

\* dict.copy() without the copy: the same object under a second name.
DictAlias(h, src) == [heap |-> h, ref |-> src]

\* dict.copy(): a new object with the same keys and values.
DictCopy(h, src) ==
    LET new == FreshId(h)
    IN  [heap |-> [h EXCEPT ![new] = h[src]], ref |-> new]

\* Reference counting: an object no name holds is freed.
Collect(h, live) == [i \in ObjIds |-> IF i \in live THEN h[i] ELSE Free]

\* `name not in RichHelpFormatter.styles`: the test inverted.
NameNotInStyles(h, ref, name) == name \notin DOMAIN h[ref]

\* `name in RichHelpFormatter.styles`
NameInStyles(h, ref, name) == name \in DOMAIN h[ref]

\* `RichHelpFormatter.styles[name] = style`: in place, inserting a new key.
StoreStyle(h, ref, name, style) ==
    [h EXCEPT ![ref] = [k \in DOMAIN @ \cup {name} |->
                            IF k = name THEN style ELSE @[k]]]

----------------------------------------------------------------------------
(* set_theme *)

\* The live table and the backup, as values.
Styles == heap[stylesRef]
DefaultStyles == heap[defaultRef]

\* `THEME = theme` without `global THEME`: a local is bound, the global stays.
AssignLocal(old, theme) == old

\* `global THEME; THEME = theme`
AssignTheme(old, theme) == theme

\* The branch for None without `.copy()`: the class attribute is bound to
\* the backup itself.
ResetStylesNoCopy(h, ref, dflt) == [heap |-> Collect(h, {dflt}), ref |-> dflt]

\* `RichHelpFormatter.styles = DEFAULT_RICH_ARGPARSE_STYLES.copy()`: the class
\* attribute is bound to a fresh copy and the table it held is dropped.
ResetStyles(h, ref, dflt) ==
    LET c == DictCopy(h, dflt)
    IN  [heap |-> Collect(c.heap, {dflt, c.ref}), ref |-> c.ref]

RECURSIVE ApplyItems(_, _, _, _)
\* The loop over theme.styles.items(), `rest` being the names not yet visited.
\* The names of a dict are distinct, so the order of the visits does not
\* change the result of an uninterrupted loop.
ApplyItems(h, ref, styles, rest) ==
    IF rest = {} THEN h
    ELSE LET name == CHOOSE n \in rest : TRUE
             h1 == IF NameInStyles(h, ref, name)
                   THEN StoreStyle(h, ref, name, styles[name])
                   ELSE h
         IN  ApplyItems(h1, ref, styles, rest \ {name})

RECURSIVE UpdateItems(_, _, _, _)
\* The loop without its membership test: RichHelpFormatter.styles.update(...).
UpdateItems(h, ref, styles, rest) ==
    IF rest = {} THEN h
    ELSE LET name == CHOOSE n \in rest : TRUE
         IN  UpdateItems(StoreStyle(h, ref, name, styles[name]), ref, styles,
                         rest \ {name})

\* The branch for a theme written as dict.update.
UpdateThemeStyles(h, ref, theme) ==
    UpdateItems(h, ref, theme.styles, DOMAIN theme.styles)

\* The branch for a theme that first puts the defaults back into the table.
RestoreThenApply(h, ref, theme) ==
    ApplyItems([h EXCEPT ![ref] = h[defaultRef]], ref, theme.styles,
               DOMAIN theme.styles)

\* The branch for a theme: the whole `for name, style in ...` loop.
ApplyThemeStyles(h, ref, theme) ==
    ApplyItems(h, ref, theme.styles, DOMAIN theme.styles)

\* set_theme(theme), run by one thread without interruption.
SetTheme(theme) ==
    /\ THEME' = AssignTheme(THEME, theme)
    /\ lastThemeArg' = theme
    /\ IF theme = None
       THEN LET r == ResetStyles(heap, stylesRef, defaultRef)
            IN  heap' = r.heap /\ stylesRef' = r.ref
       ELSE /\ heap' = ApplyThemeStyles(heap, stylesRef, theme)
            /\ stylesRef' = stylesRef
    /\ last' = [op |-> "set_theme", theme |-> theme, before |-> Styles]
    /\ UNCHANGED <<allow_style, defaultRef, console, raceVars>>

\* `allow_style = ...`: the framework rebinds the module global.
SetAllowStyle(member) ==
    /\ allow_style' = member
    /\ last' = [op |-> "allow_style"]
    /\ UNCHANGED <<THEME, heap, stylesRef, defaultRef, console, lastThemeArg,
                   raceVars>>

----------------------------------------------------------------------------
(* class Cmd2Console(Console) *)

TabSize == 4

\* The branches without the `elif`: only ALWAYS passes anything.
ConsoleKwargsNoElif(policy, probe) ==
    IF policy = "ALWAYS"
    THEN [force_terminal |-> TRUE, force_interactive |-> probe]
    ELSE EmptyDict

\* kwargs as __init__ builds it; `probe` is tmp_console.is_interactive, which
\* is read only under ALWAYS.
ConsoleKwargs(policy, probe) ==
    IF policy = "ALWAYS"
    THEN [force_terminal |-> TRUE, force_interactive |-> probe]
    ELSE IF policy = "NEVER"
    THEN [force_terminal |-> FALSE]
    ELSE EmptyDict

\* The call with Console's own defaults (tab_size=8, markup, emoji and
\* highlight on) left in place.
SuperInitDefaults(file, theme, kwargs) ==
    [file |-> file, tab_size |-> 2 * TabSize, markup |-> TRUE, emoji |-> TRUE,
     highlight |-> TRUE, theme |-> theme, kwargs |-> kwargs]

\* super().__init__(file=file, tab_size=4, markup=False, ..., **kwargs): the
\* arguments the base class is constructed with.
SuperInit(file, theme, kwargs) ==
    [file |-> file, tab_size |-> TabSize, markup |-> FALSE, emoji |-> FALSE,
     highlight |-> FALSE, theme |-> theme, kwargs |-> kwargs]

\* Cmd2Console(file). The record also keeps what the initializer read: the
\* policy, the probe's answer and the argument of the latest set_theme call.
\* The throwaway console is made only under ALWAYS; under the other policies
\* there is no probe and `probe` is fixed at FALSE.
NewCmd2Console(file, probe) ==
    /\ allow_style = "ALWAYS" \/ probe = FALSE
    /\ console' = [args |-> SuperInit(file, THEME,
                                      ConsoleKwargs(allow_style, probe)),
                   policy |-> allow_style,
                   probe |-> probe,
                   themeArg |-> lastThemeArg]
    /\ last' = [op |-> "Cmd2Console"]
    /\ UNCHANGED <<globals, raceVars>>

\* Cmd2Console.on_broken_pipe: the exception that leaves the handler when
\* the base class handler ends as `base`.
OnBrokenPipe(base) ==
    IF base = "SystemExit" THEN "BrokenPipeError"      \* except SystemExit: pass
    ELSE IF base = "return" THEN "BrokenPipeError"     \* raise BrokenPipeError
    ELSE base                                          \* not caught: propagates

CallOnBrokenPipe(base) ==
    /\ console # None
    /\ last' = [op |-> "on_broken_pipe", base |-> base,
                raised |-> OnBrokenPipe(base)]
    /\ UNCHANGED <<globals, console, raceVars>>

\* str(allow_style), as cmd2's set command prints the setting.
CallStr ==
    /\ last' = [op |-> "str", member |-> allow_style, text |-> Str(allow_style)]
    /\ UNCHANGED <<globals, console, raceVars>>

----------------------------------------------------------------------------
(* The module after import, and a single-threaded program using it *)

Init ==
    /\ allow_style = "TERMINAL"
    /\ THEME = None
    /\ LET loaded == [i \in ObjIds |-> IF i = 0 THEN LoadedStyles ELSE Free]
           c == DictCopy(loaded, 0)
       IN  heap = c.heap /\ stylesRef = 0 /\ defaultRef = c.ref
    /\ console = None
    /\ last = [op |-> "import"]
    /\ lastThemeArg = None
    /\ pcT = "idle" /\ tTheme = None /\ tRest = {} /\ tCur = None
    /\ pcN = "idle" /\ nTmp = None
    /\ overlapped = FALSE

\* A program that sets themes, sets the policy, constructs consoles, has a
\* console's broken-pipe handler called and prints the policy. A console
\* keeps its theme as a whole, so here a theme names at most one style.
Next ==
    \/ \E theme \in SingleStyleThemes \cup {None} : SetTheme(theme)
    \/ \E member \in AllowStyle : SetAllowStyle(member)
    \/ \E file \in Files, probe \in BOOLEAN : NewCmd2Console(file, probe)
    \/ \E base \in BaseOutcomes : CallOnBrokenPipe(base)
    \/ CallStr

Spec == Init /\ [][Next]_vars

\* A program that only calls set_theme, with every theme of Themes.
NextTheme ==
    \/ \E theme \in Themes : SetTheme(theme)
    \/ SetTheme(None)

SpecTheme == Init /\ [][NextTheme]_vars

----------------------------------------------------------------------------
(* Two threads, one calling set_theme(theme) and one set_theme(None), with no
   lock: each statement of set_theme is a step, and the steps of the two
   calls interleave in any order. *)

InCall(pc) == pc \notin {"idle", "done"}

\* Thread T, line 62: THEME = theme.
T_AssignTheme(theme) ==
    /\ pcT = "idle"
    /\ THEME' = AssignTheme(THEME, theme)
    /\ lastThemeArg' = theme
    /\ tTheme' = theme
    /\ tRest' = DOMAIN theme.styles
    /\ pcT' = "for"
    /\ overlapped' = (overlapped \/ InCall(pcN))
    /\ UNCHANGED <<allow_style, heap, stylesRef, defaultRef, console, last,
                   tCur, pcN, nTmp>>

\* Thread T, line 68: the iterator yields the next item, in the order the
\* theme's dict holds its names (any order), or ends the loop.
T_NextItem ==
    /\ pcT = "for"
    /\ IF tRest = {}
       THEN pcT' = "done" /\ UNCHANGED <<tRest, tCur>>
       ELSE \E name \in tRest :
                /\ tCur' = name
                /\ tRest' = tRest \ {name}
                /\ pcT' = "if"
    /\ overlapped' = (overlapped \/ InCall(pcN))
    /\ UNCHANGED <<globals, console, last, tTheme, pcN, nTmp>>

\* Thread T, line 69: if name in RichHelpFormatter.styles.
T_TestName ==
    /\ pcT = "if"
    /\ pcT' = IF NameInStyles(heap, stylesRef, tCur) THEN "store" ELSE "for"
    /\ overlapped' = (overlapped \/ InCall(pcN))
    /\ UNCHANGED <<globals, console, last, tTheme, tRest, tCur, pcN, nTmp>>

\* Thread T, line 70: RichHelpFormatter.styles[name] = style, on the table
\* the class attribute names at this moment. (A store through a reference
\* loaded just before the other thread rebinds the attribute lands in the
\* dropped table: the same outcome as this step taken before the rebinding.)
T_StoreStyle ==
    /\ pcT = "store"
    /\ heap' = StoreStyle(heap, stylesRef, tCur, tTheme.styles[tCur])
    /\ pcT' = "for"
    /\ overlapped' = (overlapped \/ InCall(pcN))
    /\ UNCHANGED <<allow_style, THEME, stylesRef, defaultRef, lastThemeArg,
                   console, last, tTheme, tRest, tCur, pcN, nTmp>>

\* Thread N, line 62: THEME = None.
N_AssignTheme ==
    /\ pcN = "idle"
    /\ THEME' = AssignTheme(THEME, None)
    /\ lastThemeArg' = None
    /\ pcN' = "copy"
    /\ overlapped' = (overlapped \/ InCall(pcT))
    /\ UNCHANGED <<allow_style, heap, stylesRef, defaultRef, console, last,
                   pcT, tTheme, tRest, tCur, nTmp>>

\* Thread N, line 66, right-hand side: DEFAULT_RICH_ARGPARSE_STYLES.copy().
N_CopyDefaults ==
    /\ pcN = "copy"
    /\ LET c == DictCopy(heap, defaultRef)
       IN  heap' = c.heap /\ nTmp' = c.ref
    /\ pcN' = "bind"
    /\ overlapped' = (overlapped \/ InCall(pcT))
    /\ UNCHANGED <<allow_style, THEME, stylesRef, defaultRef, lastThemeArg,
                   console, last, pcT, tTheme, tRest, tCur>>

\* Thread N, line 66, the assignment: RichHelpFormatter.styles = <the copy>.
N_BindStyles ==
    /\ pcN = "bind"
    /\ stylesRef' = nTmp
    /\ heap' = Collect(heap, {defaultRef, nTmp})
    /\ nTmp' = None
    /\ pcN' = "done"
    /\ overlapped' = (overlapped \/ InCall(pcT))
    /\ UNCHANGED <<allow_style, THEME, defaultRef, lastThemeArg, console, last,
                   pcT, tTheme, tRest, tCur>>

NextRace ==
    \/ \E theme \in Themes : T_AssignTheme(theme)
    \/ T_NextItem
    \/ T_TestName
    \/ T_StoreStyle
    \/ N_AssignTheme
    \/ N_CopyDefaults
    \/ N_BindStyles

SpecRace == Init /\ [][NextRace]_vars

----------------------------------------------------------------------------
(* Properties *)

SetThemeDone == last.op = "set_theme"
ThemeSet == SetThemeDone /\ last.theme # None
ThemeCleared == SetThemeDone /\ last.theme = None

\* C1: after any sequence of set_theme calls that ends with set_theme(None),
\* RichHelpFormatter.styles equals (same keys, same style per key) the table
\* as it was before the first set_theme call.
C1_ClearRestoresStyles == ThemeCleared => Styles = LoadedStyles

\* C1's case: set_theme(None) was called on a table that themes had changed.
C1_Witness ==
    ThemeCleared /\ last.before # LoadedStyles /\ Styles = LoadedStyles

\* C2: set_theme(theme) with a theme leaves the key set of the table as it
\* was, and a theme name that was no key of the table is no key afterwards.
C2_NoKeyInserted ==
    ThemeSet =>
        /\ DOMAIN Styles = DOMAIN last.before
        /\ \A name \in DOMAIN last.theme.styles :
               name \notin DOMAIN last.before => name \notin DOMAIN Styles

\* C2's case: the theme named a style the table does not have, and one it has.
C2_Witness ==
    /\ ThemeSet
    /\ \E name \in DOMAIN last.theme.styles :
           name \notin DOMAIN last.before /\ name \notin DOMAIN Styles
    /\ \E name \in DOMAIN last.theme.styles :
           name \in DOMAIN last.before /\ Styles[name] # last.before[name]

\* C6: DEFAULT_RICH_ARGPARSE_STYLES keeps the value captured at import, and
\* the live table is never the same object as the backup.
C6_BackupNeverMutated ==
    DefaultStyles = LoadedStyles /\ stylesRef # defaultRef

\* C6's case: set_theme(None) had rebound the table (it is no longer the
\* object of import time), and a later set_theme(theme) overwrote an entry of
\* it in place.
C6_Witness ==
    ThemeSet /\ stylesRef # 0 /\ Styles # last.before

\* C10: set_theme(theme) with a theme leaves every entry of the table whose
\* name the theme does not have as it was.
C10_OtherEntriesKept ==
    ThemeSet =>
        \A name \in DOMAIN last.before \ DOMAIN last.theme.styles :
            name \in DOMAIN Styles /\ Styles[name] = last.before[name]

\* C10's case: after set_theme(A) and then set_theme(B), an entry that B
\* does not name holds a style that is not its default: the table depends on
\* the earlier calls and not only on the active theme.
C10_Witness ==
    /\ ThemeSet
    /\ THEME = last.theme
    /\ \E name \in DOMAIN Styles \ DOMAIN last.theme.styles :
           Styles[name] # LoadedStyles[name]

\* C3: the keyword arguments of a constructed console follow the policy read
\* by the initializer: ALWAYS passes force_terminal = True and
\* force_interactive = the throwaway console's is_interactive; NEVER passes
\* force_terminal = False alone; TERMINAL passes neither.
C3_PolicyFlags ==
    console # None =>
        LET kw == console.args.kwargs
        IN  /\ console.policy = "ALWAYS" =>
                /\ DOMAIN kw = {"force_terminal", "force_interactive"}
                /\ kw.force_terminal = TRUE
                /\ kw.force_interactive = console.probe
            /\ console.policy = "NEVER" =>
                /\ DOMAIN kw = {"force_terminal"}
                /\ kw.force_terminal = FALSE
            /\ console.policy = "TERMINAL" => DOMAIN kw = {}

\* C3's case: a console constructed under NEVER, after the policy was changed
\* from its initial TERMINAL.
C3_Witness ==
    /\ console # None
    /\ console.policy = "NEVER"
    /\ console.args.kwargs = [force_terminal |-> FALSE]

\* C4: every constructed console has markup, emoji and highlight off and a
\* tab size of 4, whatever the policy and the theme.
C4_FixedParameters ==
    console # None =>
        /\ console.args.markup = FALSE
        /\ console.args.emoji = FALSE
        /\ console.args.highlight = FALSE
        /\ console.args.tab_size = 4

\* C4's case: a console constructed under ALWAYS with a theme active.
C4_Witness ==
    /\ console # None
    /\ console.policy = "ALWAYS"
    /\ console.args.theme # None
    /\ console.args.tab_size = 4

\* C7: a console's theme is the argument of the latest set_theme call before
\* its construction (None if there was none), also after later set_theme
\* calls.
C7_ThemeAtConstruction ==
    console # None => console.args.theme = console.themeArg

\* C7's case: set_theme was called after the construction with another theme,
\* and the console still has the theme it was constructed with.
C7_Witness ==
    /\ console # None
    /\ console.args.theme # None
    /\ SetThemeDone
    /\ lastThemeArg # console.args.theme
    /\ THEME # console.args.theme

\* C5: on_broken_pipe lets no SystemExit out and always ends by raising
\* BrokenPipeError, whatever the base class handler does.
C5_AlwaysBrokenPipeError ==
    last.op = "on_broken_pipe" =>
        last.raised # "SystemExit" /\ last.raised = "BrokenPipeError"

\* C8: str() of an AllowStyle member is its label, not its name.
C8_StrIsLabel ==
    last.op = "str" =>
        /\ last.member = "ALWAYS" => last.text = "Always"
        /\ last.member = "NEVER" => last.text = "Never"
        /\ last.member = "TERMINAL" => last.text = "Terminal"
        /\ last.text # last.member

\* C8's case: the policy was set to ALWAYS and printed.
C8_Witness ==
    last.op = "str" /\ last.member = "ALWAYS" /\ last.text = "Always"

\* The table that goes with the active theme when the two calls run one
\* after the other from the state after import: the defaults when the theme
\* is None (set_theme(T); set_theme(None)), the defaults overlaid with T's
\* styles when it is T (set_theme(None); set_theme(T)).
SerialStyles ==
    IF THEME = None THEN LoadedStyles
    ELSE [k \in DOMAIN LoadedStyles |->
             IF k \in DOMAIN THEME.styles THEN THEME.styles[k]
             ELSE LoadedStyles[k]]

RaceDone == pcT = "done" /\ pcN = "done"

\* C9: a final state of the two calls in which the active theme and the
\* table disagree is produced by no serial order of them: it is reached only
\* when the calls overlap. (That such a state is reached is C9_Witness.)
C9_DisagreementOnlyByRace ==
    (RaceDone /\ Styles # SerialStyles) => overlapped

\* C9's case: both calls have returned, the active theme is None and the
\* table holds T's styles instead of the defaults.
C9_Witness ==
    /\ RaceDone
    /\ THEME = None
    /\ Styles # LoadedStyles
    /\ \A k \in DOMAIN Styles \cap DOMAIN tTheme.styles :
           Styles[k] = tTheme.styles[k]

\* The other disagreement of C9: the active theme is T and the table equals
\* the defaults, though T would change it.
C9_ThemeWithDefaultStyles ==
    /\ RaceDone
    /\ THEME = tTheme
    /\ Styles = LoadedStyles
    /\ Styles # SerialStyles

====
